---- MODULE Spec2Model ----
(***************************************************************************)
(* SolarOS: the portfolio optimizer of the dashboard,                      *)
(* web/src/components/dashboard/MultiFarmOptimizer.tsx, followed by the    *)
(* components that call the backend (MultiFarmOptimizer, RainIntelligence, *)
(* LivePreview, SectionAnalysis), the demo LiveEnginePreview and the       *)
(* single-site decision engine.  Each part has its own variables and its   *)
(* own specification; the specifications are at the end of the module.     *)
(*                                                                         *)
(* optimizeFarmsClientSide(farms, waterBudget, mode) scores every farm,    *)
(* sorts the scores by descending priority and greedily selects farms      *)
(* while the running water total stays within the budget.                  *)
(*                                                                         *)
(* Numbers.  The source computes in IEEE doubles; the model computes the   *)
(* same quantities exactly, in integers, at these scales:                  *)
(*   dust_rate, electricity_price  tenths          (1.2 is 12, 6.5 is 65)  *)
(*   efficiencyLoss                per mille       (0.072 is 72)           *)
(*   energy                        kWh             (panel_area is a        *)
(*                                                  multiple of 1000 m2)   *)
(*   benefit                       1/20 rupee      (water * 0.05 is exact) *)
(*   co2                           1/100 kg                                *)
(*   priority, roi                 exact fractions [num, den], den > 0     *)
(* Rounding of doubles is therefore not modelled: two priorities that are  *)
(* equal as real numbers are equal in the model.  On the farms of the      *)
(* model this orders PROFIT and CARBON priorities exactly as the doubles   *)
(* do (Beta and Gamma tie in CARBON at 121770.0 in both); in               *)
(* WATER_SCARCITY Alpha and Gamma tie in the model at 29.7 kWh/L, where    *)
(* the doubles are 29.700000000000006 and 29.7.                            *)
(***************************************************************************)
EXTENDS Integers, Sequences, FiniteSets, TLC

VARIABLES
    farms,          \* argument farms: Farm[]
    waterBudget,    \* argument waterBudget (litres)
    mode,           \* argument mode
    pc,             \* position in optimizeFarmsClientSide
    i,              \* index of the for-of loop in progress (1-based)
    farmScores,     \* const farmScores: FarmScore[]
    selected,       \* const selected: FarmScore[]
    totalWater,     \* let totalWater
    totalEnergy,    \* let totalEnergy
    totalBenefit,   \* let totalBenefit
    totalCo2,       \* let totalCo2
    outcome,        \* "running", "returned" (the function has no throw)
    result          \* the returned object, NoResult before the return

vars == <<farms, waterBudget, mode, pc, i, farmScores, selected,
          totalWater, totalEnergy, totalBenefit, totalCo2, outcome, result>>

\* a call that has not started: the state of the optimizer's variables in
\* the specifications of the other parts
optIdle ==
    /\ farms = <<>>
    /\ waterBudget = 0
    /\ mode = "PROFIT"
    /\ pc = "score"
    /\ i = 1
    /\ farmScores = <<>>
    /\ selected = <<>>
    /\ totalWater = 0
    /\ totalEnergy = 0
    /\ totalBenefit = 0
    /\ totalCo2 = 0
    /\ outcome = "running"
    /\ result = [none |-> TRUE]

(***************************************************************************)
(* Bounds of the model.                                                    *)
(***************************************************************************)
MaxFarms == 3
MaxBudgetSteps == 6
BudgetGrain == 2500

(***************************************************************************)
(* Inputs.                                                                 *)
(***************************************************************************)
Modes == {"PROFIT", "CARBON", "WATER_SCARCITY"}

Farm(n, a, d, p, w) ==
    [name |-> n, panel_area |-> a, dust_rate |-> d,
     electricity_price |-> p, water_usage |-> w]

sampleFarms ==
    << Farm("Farm Alpha", 125000, 12, 65, 10000),
       Farm("Farm Beta",   75000, 10, 60,  7500),
       Farm("Farm Gamma",  50000, 15, 62,  5000),
       Farm("Farm Delta",  25000,  9, 60,  2500) >>

\* One more farm, of varying shape: without water, thirsty, very dusty.
ExtraFarms ==
    { Farm("Farm Epsilon", 50000, d, 65, w) : d \in {15, 200}, w \in {0, 2500, 12500} }
    \cup { Farm("Farm Epsilon", a, 15, 65, 2500) : a \in {0, -25000} }

FarmPool == {sampleFarms[k] : k \in 1..Len(sampleFarms)} \cup ExtraFarms

Range(s) == {s[k] : k \in 1..Len(s)}

DistinctNames(s) ==
    \A j, k \in 1..Len(s) : j # k => s[j].name # s[k].name

FarmLists ==
    {sampleFarms} \cup
    UNION { {s \in [1..n -> FarmPool] : DistinctNames(s)} : n \in 0..MaxFarms }

\* -BudgetGrain is the invalid, negative budget.
Budgets == {k * BudgetGrain : k \in -1..MaxBudgetSteps}

NoResult == [none |-> TRUE]

(***************************************************************************)
(* Exact fractions for the quotients of the source.                        *)
(***************************************************************************)
RECURSIVE Gcd(_, _)
Gcd(a, b) == IF b = 0 THEN a ELSE Gcd(b, a % b)

Abs(x) == IF x < 0 THEN -x ELSE x

\* n / d for d > 0, in lowest terms
Quot(n, d) ==
    LET g == Gcd(Abs(n), d)
    IN  [num |-> n \div g, den |-> d \div g]

Whole(n) == [num |-> n, den |-> 1]

\* the sign of a - b
Cmp(a, b) ==
    LET l == a.num * b.den
        r == b.num * a.den
    IN  IF l < r THEN -1 ELSE IF l > r THEN 1 ELSE 0

(***************************************************************************)
(* The scoring loop (one farm).                                            *)
(***************************************************************************)
daysSinceClean == 30

\* farm.dust_rate * daysSinceClean * 0.002, per mille
efficiencyLoss(farm) == (farm.dust_rate * daysSinceClean * 2) \div 10

\* panel_area * 5.5 * 0.20 * efficiencyLoss * 30, kWh
energyRecoverable(farm) ==
    (farm.panel_area \div 1000) * 33 * efficiencyLoss(farm)

\* revenue - cleaningCost, 1/20 rupee:
\* revenue = energy * price, cleaningCost = water_usage * 0.05
netBenefit(farm) ==
    energyRecoverable(farm) * farm.electricity_price * 2 - farm.water_usage

\* energyRecoverable * 0.82, 1/100 kg
co2Offset(farm) == energyRecoverable(farm) * 82

waterEfficiency(farm) ==
    IF farm.water_usage > 0
    THEN Quot(energyRecoverable(farm), farm.water_usage)
    ELSE Whole(0)

priorityOf(farm, m) ==
    IF m = "PROFIT" THEN Quot(netBenefit(farm), 20)
    ELSE IF m = "CARBON" THEN Quot(co2Offset(farm), 100)
    ELSE waterEfficiency(farm)

\* cleaningCost > 0 ? netBenefit / cleaningCost : 0
roiOf(farm) ==
    IF farm.water_usage > 0
    THEN Quot(netBenefit(farm), farm.water_usage)
    ELSE Whole(0)

FarmScore(farm, m) ==
    [name        |-> farm.name,
     priority    |-> priorityOf(farm, m),
     water_usage |-> farm.water_usage,
     energy      |-> energyRecoverable(farm),
     benefit     |-> netBenefit(farm),
     co2         |-> co2Offset(farm),
     roi         |-> roiOf(farm)]

(***************************************************************************)
(* farmScores.sort((a, b) => b.priority - a.priority): Array.prototype.sort *)
(* is stable, so scores of equal priority keep their input order.          *)
(***************************************************************************)
\* a sort that ascends: a.priority - b.priority
compareFn_Ascending(a, b) == Cmp(a.priority, b.priority)

\* the sign of b.priority - a.priority
compareFn(a, b) == Cmp(b.priority, a.priority)

RECURSIVE InsertSorted(_, _)
InsertSorted(s, x) ==
    IF s = <<>> THEN <<x>>
    ELSE IF compareFn(x, Head(s)) < 0 THEN <<x>> \o s
    ELSE <<Head(s)>> \o InsertSorted(Tail(s), x)

RECURSIVE SortScores(_)
SortScores(s) ==
    IF s = <<>> THEN <<>>
    ELSE InsertSorted(SortScores(SubSeq(s, 1, Len(s) - 1)), s[Len(s)])

(***************************************************************************)
(* The greedy loop (one farmData).                                         *)
(***************************************************************************)
\* a test that forgets the running total
Fits_OwnWaterOnly(water, farmData, budget) == farmData.water_usage <= budget

\* a test with < for <=
Fits_Strict(water, farmData, budget) == water + farmData.water_usage < budget

\* if (totalWater + farmData.water_usage <= waterBudget)
Fits(water, farmData, budget) == water + farmData.water_usage <= budget

Names(s) == [k \in 1..Len(s) |-> s[k].name]

ReturnValue(sel, w, b, e, c) ==
    [selected_farms |-> Names(sel),
     water_used     |-> w,
     total_benefit  |-> b,
     total_energy   |-> e,
     total_co2      |-> c,
     farm_details   |-> sel]

\* const selected = []; let totalWater = 0; let totalEnergy = 0; ...
EmptySelection ==
    [selected |-> <<>>, totalWater |-> 0, totalEnergy |-> 0,
     totalBenefit |-> 0, totalCo2 |-> 0]

\* a loop that stops selecting after its first selection
SelectStep_KeepsFirstOnly(acc, farmData, budget) ==
    IF acc.selected = <<>> /\ Fits(acc.totalWater, farmData, budget)
    THEN [selected     |-> Append(acc.selected, farmData),
          totalWater   |-> acc.totalWater + farmData.water_usage,
          totalEnergy  |-> acc.totalEnergy + farmData.energy,
          totalBenefit |-> acc.totalBenefit + farmData.benefit,
          totalCo2     |-> acc.totalCo2 + farmData.co2]
    ELSE acc

\* a loop body that leaves totalCo2 += farmData.co2 out
SelectStep_ForgetsCo2(acc, farmData, budget) ==
    IF Fits(acc.totalWater, farmData, budget)
    THEN [selected     |-> Append(acc.selected, farmData),
          totalWater   |-> acc.totalWater + farmData.water_usage,
          totalEnergy  |-> acc.totalEnergy + farmData.energy,
          totalBenefit |-> acc.totalBenefit + farmData.benefit,
          totalCo2     |-> acc.totalCo2]
    ELSE acc

\* the body of the greedy loop for one farmData
SelectStep(acc, farmData, budget) ==
    IF Fits(acc.totalWater, farmData, budget)
    THEN [selected     |-> Append(acc.selected, farmData),
          totalWater   |-> acc.totalWater + farmData.water_usage,
          totalEnergy  |-> acc.totalEnergy + farmData.energy,
          totalBenefit |-> acc.totalBenefit + farmData.benefit,
          totalCo2     |-> acc.totalCo2 + farmData.co2]
    ELSE acc

(***************************************************************************)
(* optimizeFarmsClientSide, step by step.                                  *)
(***************************************************************************)
Init ==
    /\ farms \in FarmLists
    /\ waterBudget \in Budgets
    /\ mode \in Modes
    /\ pc = "score"
    /\ i = 1
    /\ farmScores = <<>>
    /\ selected = <<>>
    /\ totalWater = 0
    /\ totalEnergy = 0
    /\ totalBenefit = 0
    /\ totalCo2 = 0
    /\ outcome = "running"
    /\ result = NoResult

\* for (const farm of farms) { ... farmScores.push({...}) }
ScoreFarm ==
    /\ pc = "score"
    /\ i <= Len(farms)
    /\ farmScores' = Append(farmScores, FarmScore(farms[i], mode))
    /\ i' = i + 1
    /\ UNCHANGED <<farms, waterBudget, mode, pc, selected, totalWater,
                   totalEnergy, totalBenefit, totalCo2, outcome, result>>

\* farmScores.sort(...); const selected = []; let totalWater = 0; ...
Sort ==
    /\ pc = "score"
    /\ i > Len(farms)
    /\ farmScores' = SortScores(farmScores)
    /\ selected' = EmptySelection.selected
    /\ totalWater' = EmptySelection.totalWater
    /\ totalEnergy' = EmptySelection.totalEnergy
    /\ totalBenefit' = EmptySelection.totalBenefit
    /\ totalCo2' = EmptySelection.totalCo2
    /\ i' = 1
    /\ pc' = "select"
    /\ UNCHANGED <<farms, waterBudget, mode, outcome, result>>

\* for (const farmData of farmScores) { if (...) { selected.push ... } }
SelectFarm ==
    /\ pc = "select"
    /\ i <= Len(farmScores)
    /\ LET acc == [selected |-> selected, totalWater |-> totalWater,
                   totalEnergy |-> totalEnergy, totalBenefit |-> totalBenefit,
                   totalCo2 |-> totalCo2]
           nxt == SelectStep(acc, farmScores[i], waterBudget)
       IN  /\ selected' = nxt.selected
           /\ totalWater' = nxt.totalWater
           /\ totalEnergy' = nxt.totalEnergy
           /\ totalBenefit' = nxt.totalBenefit
           /\ totalCo2' = nxt.totalCo2
    /\ i' = i + 1
    /\ UNCHANGED <<farms, waterBudget, mode, pc, farmScores, outcome, result>>

\* a return that sums with reduce() and no initial value: it throws a
\* TypeError when nothing was selected
Return_ReduceOfEmpty ==
    /\ pc = "select"
    /\ i > Len(farmScores)
    /\ IF selected = <<>>
       THEN /\ outcome' = "threw"
            /\ UNCHANGED result
       ELSE /\ outcome' = "returned"
            /\ result' = ReturnValue(selected, totalWater, totalBenefit,
                                     totalEnergy, totalCo2)
    /\ pc' = "done"
    /\ UNCHANGED <<farms, waterBudget, mode, i, farmScores, selected,
                   totalWater, totalEnergy, totalBenefit, totalCo2>>

\* return { selected_farms: ..., water_used: totalWater, ... }
Return ==
    /\ pc = "select"
    /\ i > Len(farmScores)
    /\ result' = ReturnValue(selected, totalWater, totalBenefit, totalEnergy, totalCo2)
    /\ outcome' = "returned"
    /\ pc' = "done"
    /\ UNCHANGED <<farms, waterBudget, mode, i, farmScores, selected,
                   totalWater, totalEnergy, totalBenefit, totalCo2>>

Next == ScoreFarm \/ Sort \/ SelectFarm \/ Return

(***************************************************************************)
(* optimizeFarmsClientSide as a function of its arguments: the same        *)
(* scoring, sort and greedy step, run to the end.                          *)
(***************************************************************************)
ScoreAll(fs, m) == [k \in 1..Len(fs) |-> FarmScore(fs[k], m)]

RECURSIVE GreedyFrom(_, _, _, _)
GreedyFrom(scores, k, acc, budget) ==
    IF k > Len(scores) THEN acc
    ELSE GreedyFrom(scores, k + 1, SelectStep(acc, scores[k], budget), budget)

optimizeFarmsClientSide(fs, budget, m) ==
    LET acc == GreedyFrom(SortScores(ScoreAll(fs, m)), 1, EmptySelection, budget)
    IN  ReturnValue(acc.selected, acc.totalWater, acc.totalBenefit,
                    acc.totalEnergy, acc.totalCo2)

TypeOK ==
    /\ farms \in FarmLists
    /\ waterBudget \in Budgets
    /\ mode \in Modes
    /\ pc \in {"score", "select", "done"}
    /\ outcome \in {"running", "returned"}
    /\ outcome = "returned" <=> pc = "done"
    /\ i \in 1..(Len(farms) + 1)
    /\ result = NoResult <=> pc # "done"

(***************************************************************************)
(* generateInsights(data), which handleSuccess applies to the returned     *)
(* object: its fourth insight evaluates                                    *)
(*   data.total_benefit / (data.water_used * 0.05) * 100.                  *)
(* The divisors below are at the scale of benefit (1/20 rupee).            *)
(***************************************************************************)
\* data.water_used * 0.05
insightsRoiDivisor(data) == data.water_used

\* the divisors of the divisions that scoring one farm evaluates: the
\* conditional expressions of waterEfficiency and roi divide only in their
\* first branch
scoringDivisors(farm) ==
    (IF farm.water_usage > 0 THEN {farm.water_usage} ELSE {})     \* waterEfficiency
    \cup (IF farm.water_usage > 0 THEN {farm.water_usage} ELSE {}) \* roi: cleaningCost

\* the step-by-step run returns what the function returns
RunIsFunction ==
    pc = "done" => result = optimizeFarmsClientSide(farms, waterBudget, mode)
(***************************************************************************)
(* Properties of the portfolio optimizer.                                  *)
(***************************************************************************)
Done == pc = "done"

ValidBudget == waterBudget >= 0

\* the farms of the call are in the domain of the optimizer: panel_area > 0
ValidFarms == \A k \in 1..Len(farms) : farms[k].panel_area > 0

\* the modes in which equal priorities of the model are equal doubles
ExactModes == {"PROFIT", "CARBON"}

SumOver(f(_), S) ==
    LET RECURSIVE Sum(_)
        Sum(T) == IF T = {} THEN 0
                  ELSE LET x == CHOOSE y \in T : TRUE
                       IN  f(x) + Sum(T \ {x})
    IN  Sum(S)

\* C1: with a budget >= 0 (and water_usage >= 0), the running water total
\* never exceeds the budget after any step of the greedy loop, and the
\* water_used that is returned is <= the budget, in every mode.
C1_WaterWithinBudget ==
    ValidBudget =>
        /\ totalWater <= waterBudget
        /\ Done => result.water_used <= waterBudget

\* C1 witness: a finished run under a valid budget that selected two farms
\* and skipped another one that did not fit.
C1_Witness ==
    /\ Done
    /\ ValidBudget
    /\ Len(selected) >= 2
    /\ Len(selected) < Len(farmScores)
    /\ totalWater = waterBudget

\* C2: budget monotonicity: every farm selected under a budget b1 with
\* 0 <= b1 <= waterBudget is also selected under waterBudget (same farms,
\* same mode).  Stated for the modes whose priorities the model orders as
\* the doubles do.
C2_BudgetMonotone ==
    (Done /\ ValidFarms /\ mode \in ExactModes) =>
        \A b1 \in Budgets :
            (0 <= b1 /\ b1 <= waterBudget) =>
                Range(optimizeFarmsClientSide(farms, b1, mode).selected_farms)
                    \subseteq Range(result.selected_farms)

\* C3: the selection is an optimal knapsack: in PROFIT and CARBON no subset
\* of the farms that fits in the budget has a strictly larger total
\* priority (net benefit, CO2 offset) than the selected set.
C3_KnapsackOptimal ==
    (Done /\ ValidBudget /\ ValidFarms /\ mode \in ExactModes) =>
        LET Water(k) == farmScores[k].water_usage
            Value(k) == IF mode = "PROFIT" THEN farmScores[k].benefit
                        ELSE farmScores[k].co2
            Chosen   == IF mode = "PROFIT" THEN result.total_benefit
                        ELSE result.total_co2
        IN  \A S \in SUBSET (1..Len(farmScores)) :
                SumOver(Water, S) <= waterBudget => SumOver(Value, S) <= Chosen

IndexPermutations(n) ==
    {f \in [1..n -> 1..n] : \A j, k \in 1..n : j # k => f[j] # f[k]}

Permuted(s, f) == [k \in 1..Len(s) |-> s[f[k]]]

\* C5: the ordered selected_farms depends on the set of farms, the budget
\* and the mode only: every permutation of the input farm list gives the
\* same ordered list (farms of equal priority are ordered by name).  Stated
\* for the modes whose priorities the model orders as the doubles do.
C5_OrderIndependent ==
    (Done /\ ValidBudget /\ ValidFarms /\ mode \in ExactModes) =>
        \A f \in IndexPermutations(Len(farms)) :
            optimizeFarmsClientSide(Permuted(farms, f), waterBudget, mode).selected_farms
                = result.selected_farms

\* C6: a call with water_budget < 0 fails with a ConfigError and returns no
\* selection.
C6_NegativeBudgetFails ==
    (Done /\ ValidFarms /\ waterBudget < 0) =>
        /\ outcome = "ConfigError"
        /\ result = NoResult

\* C7: for the four sample farms, water_budget = 15000 and mode PROFIT,
\* Farm Alpha has the highest net benefit of the four, is selected, and the
\* water_used of the selection is <= 15000.
C7_SampleFixture ==
    (Done /\ farms = sampleFarms /\ waterBudget = 15000 /\ mode = "PROFIT") =>
        /\ \E a \in 1..Len(farmScores) :
              /\ farmScores[a].name = "Farm Alpha"
              /\ \A k \in 1..Len(farmScores) :
                    k # a => farmScores[k].benefit < farmScores[a].benefit
        /\ "Farm Alpha" \in Range(result.selected_farms)
        /\ result.water_used <= 15000

\* C7 witness: the fixture has run to its end.
C7_Witness ==
    /\ Done
    /\ farms = sampleFarms
    /\ waterBudget = 15000
    /\ mode = "PROFIT"
    /\ outcome = "returned"
    /\ Len(result.selected_farms) = 2

\* C8: in WATER_SCARCITY a farm with water_usage = 0 ranks above every farm
\* with water_usage > 0: it comes before all of them in selected_farms, and
\* selecting it leaves the running water total unchanged.
C8_ZeroWaterFirst ==
    (Done /\ ValidBudget /\ ValidFarms /\ mode = "WATER_SCARCITY") =>
        \A j, k \in 1..Len(result.farm_details) :
            (/\ result.farm_details[j].water_usage = 0
             /\ result.farm_details[k].water_usage > 0) => j < k

\* C9: for an empty farm list, with any budget >= 0 and any mode, the
\* optimizer returns, without an error, an empty selected_farms with
\* water_used = 0, total_energy = 0, total_co2 = 0 and total_benefit = 0.
C9_EmptyFarmList ==
    (Done /\ ValidBudget /\ farms = <<>>) =>
        /\ outcome = "returned"
        /\ result # NoResult
        /\ result.selected_farms = <<>>
        /\ result.water_used = 0
        /\ result.total_energy = 0
        /\ result.total_co2 = 0
        /\ result.total_benefit = 0

\* C9 witness: a finished run on the empty farm list under a valid budget.
C9_Witness ==
    /\ Done
    /\ ValidBudget
    /\ farms = <<>>
    /\ farmScores = <<>>
    /\ result # NoResult

\* C10: the efficiency loss of every scored farm is clamped to
\* [0, max_loss], max_loss being at most the whole output (1000 per mille),
\* so the recoverable energy never exceeds the farm's clean output over the
\* horizon, panel_area * 5.5 * 0.20 * 30 kWh.
C10_LossClamped ==
    (ValidBudget /\ ValidFarms) =>
    \A k \in 1..Len(farmScores) :
        \E j \in 1..Len(farms) :
            /\ farms[j].name = farmScores[k].name
            /\ efficiencyLoss(farms[j]) >= 0
            /\ efficiencyLoss(farms[j]) <= 1000
            /\ farmScores[k].energy <= (farms[j].panel_area \div 1000) * 33 * 1000

\* C11: if any farm of the call has panel_area <= 0 the whole request fails
\* with a ConfigError: no farm is scored or selected and no totals are
\* returned.
C11_BadAreaFails ==
    (Done /\ ValidBudget /\ ~ValidFarms) =>
        /\ outcome = "ConfigError"
        /\ farmScores = <<>>
        /\ result = NoResult

\* C16: no division by zero is evaluated on the optimization path: neither
\* in the priorities and ROI of the scored farms nor in the ROI figure that
\* generateInsights computes from the returned object, whatever the farms
\* (zero-water farms included) and the budget (one too small to select any
\* farm included).
C16_NoDivisionByZero ==
    (Done /\ ValidBudget /\ ValidFarms) =>
        /\ \A k \in 1..Len(farms) : 0 \notin scoringDivisors(farms[k])
        /\ insightsRoiDivisor(result) # 0

\* farmScores[k] is in the selection
IsSelected(k) == farmScores[k].name \in Range(Names(selected))

\* the water of the farms selected before farmScores[k]
WaterSelectedBefore(k) ==
    LET Water(j) == farmScores[j].water_usage
    IN  SumOver(Water, {j \in 1..(k - 1) : IsSelected(j)})

\* C21: greedy skip-and-continue: the farms are visited in descending
\* priority; a visited farm is selected exactly when the water of the farms
\* selected before it plus its own water_usage is <= the budget; a farm
\* that does not fit is skipped and the later farms are still visited; the
\* final selection is maximal: no unselected farm could be added to it
\* without exceeding the budget.
C21_GreedySkipAndContinue ==
    pc \in {"select", "done"} =>
        /\ \A j, k \in 1..Len(farmScores) :
              j < k => Cmp(farmScores[j].priority, farmScores[k].priority) >= 0
        /\ \A k \in 1..Len(farmScores) :
              IF k < i
              THEN IsSelected(k) <=>
                       WaterSelectedBefore(k) + farmScores[k].water_usage <= waterBudget
              ELSE ~IsSelected(k)
        /\ Done =>
              /\ i = Len(farms) + 1
              /\ Len(farmScores) = Len(farms)
              /\ \A k \in 1..Len(farmScores) :
                    ~IsSelected(k) =>
                        result.water_used + farmScores[k].water_usage > waterBudget

\* C21 witness: a finished run that selected its first farm, skipped the
\* second, which did not fit, and still selected the third.
C21_Witness ==
    /\ Done
    /\ ValidBudget
    /\ Len(farmScores) = 3
    /\ IsSelected(1)
    /\ ~IsSelected(2)
    /\ IsSelected(3)
    /\ farmScores[3].water_usage > 0

\* C28: the returned totals are exactly the sums over the selected farms;
\* selected_farms and farm_details list the same farms in the same,
\* descending-priority, order; every entry is the score of an input farm and
\* each input farm appears at most once.
C28_TotalsAreSums ==
    Done =>
        LET d == result.farm_details
            WaterOf(k) == d[k].water_usage
            EnergyOf(k) == d[k].energy
            BenefitOf(k) == d[k].benefit
            Co2Of(k) == d[k].co2
        IN  /\ result.water_used = SumOver(WaterOf, DOMAIN d)
            /\ result.total_energy = SumOver(EnergyOf, DOMAIN d)
            /\ result.total_benefit = SumOver(BenefitOf, DOMAIN d)
            /\ result.total_co2 = SumOver(Co2Of, DOMAIN d)
            /\ result.selected_farms = Names(d)
            /\ \A j, k \in DOMAIN d :
                  j < k => Cmp(d[j].priority, d[k].priority) >= 0
            /\ \A k \in DOMAIN d :
                  \E j \in 1..Len(farms) : d[k] = FarmScore(farms[j], mode)
            /\ \A j \in 1..Len(farms) :
                  Cardinality({k \in DOMAIN d : d[k].name = farms[j].name}) <= 1

\* C28 witness: a finished run that selected at least two farms, skipped
\* another, and returns non-zero totals.
C28_Witness ==
    /\ Done
    /\ Len(result.farm_details) >= 2
    /\ Len(result.farm_details) < Len(farms)
    /\ result.total_co2 > 0
    /\ result.water_used > 0

(***************************************************************************)
(* MultiFarmOptimizer, the component                                       *)
(* (web/src/components/dashboard/MultiFarmOptimizer.tsx).                  *)
(*                                                                         *)
(* Its React state, the mount-time health check, the runs of the async     *)
(* optimizeFarms and the closure of the registered keydown handler.  A     *)
(* run reads the state through the closure of the render that started it,  *)
(* so it keeps the budget, mode, useClientSide and backendStatus of that    *)
(* render across its awaits.  State updates made in one continuation are   *)
(* rendered together.                                                      *)
(***************************************************************************)
VARIABLES
    mfoWaterBudget, \* useState waterBudget
    mfoMode,        \* useState mode
    mfoResult,      \* useState result (NoResult is null)
    mfoLoading,     \* useState loading
    loadingStep,    \* useState loadingStep
    useClientSide,  \* useState useClientSide
    backendStatus,  \* useState backendStatus
    aiInsights,     \* useState aiInsights: the number of insights held
    health,         \* checkBackendHealth: "fetching" (abort timer armed), "done"
    runs,           \* the calls of optimizeFarms in progress, oldest first
    keyEnv,         \* useClientSide, backendStatus as the registered
                    \* handleKeyDown sees them
    resultSource    \* where mfoResult was computed: "none", "backend", "fallback"

mfoVars == <<mfoWaterBudget, mfoMode, mfoResult, mfoLoading, loadingStep,
             useClientSide, backendStatus, aiInsights, health, runs, keyEnv,
             resultSource>>

\* the slider: min, max, step, and the initial useState value
SliderMin == 10000
SliderMax == 100000
SliderStep == 5000
InitialWaterBudget == 50000

\* bounds: the slider stops the user visits, the runs in progress at once
MaxSliderSteps == 1
MaxRuns == 2

SliderValues ==
    {SliderMin + k * SliderStep : k \in 0..((SliderMax - SliderMin) \div SliderStep)}

SliderChoices ==
    {v \in SliderValues : v <= SliderMin + MaxSliderSteps * SliderStep}
        \cup {InitialWaterBudget}

LoadingStep(text, m) == [text |-> text, mode |-> m]

NoStep == LoadingStep("", "")

\* the closure values of a render
RenderEnv == [useClientSide |-> useClientSide, backendStatus |-> backendStatus]

\* before the first request: the state of the component's variables in the
\* specifications of the other parts, and the start of its own
mfoIdle ==
    /\ mfoWaterBudget = InitialWaterBudget
    /\ mfoMode = "PROFIT"
    /\ mfoResult = NoResult
    /\ mfoLoading = FALSE
    /\ loadingStep = NoStep
    /\ useClientSide = FALSE
    /\ backendStatus = "checking"
    /\ aiInsights = 0
    /\ health = "fetching"
    /\ runs = <<>>
    /\ keyEnv = [useClientSide |-> FALSE, backendStatus |-> "checking"]
    /\ resultSource = "none"

\* after the mount effects: checkBackendHealth has sent GET /health and
\* armed its 8000 ms abort timer, the keydown handler is registered
MfoInit == mfoIdle

(* checkBackendHealth *)
\* res.ok: setBackendStatus('online'); setUseClientSide(false); return
HealthOk ==
    /\ health = "fetching"
    /\ health' = "done"
    /\ backendStatus' = "online"
    /\ useClientSide' = FALSE
    /\ UNCHANGED <<mfoWaterBudget, mfoMode, mfoResult, mfoLoading, loadingStep,
                   aiInsights, runs, keyEnv, resultSource>>

\* an offline branch that leaves setUseClientSide(true) out
healthOffline_StatusOnly ==
    /\ health = "fetching"
    /\ health' = "done"
    /\ backendStatus' = "offline"
    /\ UNCHANGED <<mfoWaterBudget, mfoMode, mfoResult, mfoLoading, loadingStep,
                   useClientSide, aiInsights, runs, keyEnv, resultSource>>

\* setBackendStatus('offline'); setUseClientSide(true)
healthOffline ==
    /\ health = "fetching"
    /\ health' = "done"
    /\ backendStatus' = "offline"
    /\ useClientSide' = TRUE
    /\ UNCHANGED <<mfoWaterBudget, mfoMode, mfoResult, mfoLoading, loadingStep,
                   aiInsights, runs, keyEnv, resultSource>>

\* a response that is not ok
HealthNotOk == healthOffline

\* fetch rejects: the catch block
HealthError == healthOffline

\* the timer fires: controller.abort() rejects the fetch
HealthAbort == healthOffline

(* optimizeFarms *)
RemoveAt(s, k) == SubSeq(s, 1, k - 1) \o SubSeq(s, k + 1, Len(s))

\* setLoading(true); setResult(null); setLoadingStep("Initializing ...");
\* then the first await
startRun(env) ==
    /\ Len(runs) < MaxRuns
    /\ runs' = Append(runs, [stage |-> "wait1",
                             waterBudget |-> mfoWaterBudget,
                             mode |-> mfoMode,
                             useClientSide |-> env.useClientSide,
                             backendStatus |-> env.backendStatus])
    /\ mfoLoading' = TRUE
    /\ mfoResult' = NoResult
    /\ resultSource' = "none"
    /\ loadingStep' = LoadingStep("Initializing physics engine...", "")
    /\ keyEnv' = RenderEnv
    /\ UNCHANGED <<mfoWaterBudget, mfoMode, useClientSide, backendStatus,
                   aiInsights, health>>

\* a button without disabled={loading}
ButtonEnabled_Always == TRUE

\* the button is enabled
ButtonEnabled == ~mfoLoading

\* <button onClick={optimizeFarms} disabled={loading}>
ClickRun ==
    /\ ButtonEnabled
    /\ startRun(RenderEnv)

\* the Space branch of handleKeyDown is taken
SpaceEnabled == ~mfoLoading /\ mfoResult = NoResult

\* handleKeyDown: Space calls the optimizeFarms of the render that
\* registered the handler
PressSpace ==
    /\ SpaceEnabled
    /\ startRun(keyEnv)

\* the three awaited delays that end in a setLoadingStep
RunTimer(k) ==
    /\ runs[k].stage \in {"wait1", "wait2", "wait3"}
    /\ LET r == runs[k]
           nxt == IF r.stage = "wait1" THEN "wait2"
                  ELSE IF r.stage = "wait2" THEN "wait3" ELSE "wait4"
           step == IF r.stage = "wait1"
                   THEN LoadingStep("Querying NASA satellite data (30 days)...", "")
                   ELSE IF r.stage = "wait2"
                   THEN LoadingStep("Optimizing 4 farms for", r.mode)
                   ELSE LoadingStep("Finalizing portfolio strategy...", "")
       IN  /\ runs' = [runs EXCEPT ![k].stage = nxt]
           /\ loadingStep' = step
    /\ UNCHANGED <<mfoWaterBudget, mfoMode, mfoResult, mfoLoading, useClientSide,
                   backendStatus, aiInsights, health, keyEnv, resultSource>>

\* handleSuccess(data), then the finally block, ending run k
finishRun(k, data, source) ==
    /\ mfoResult' = data
    /\ resultSource' = source
    /\ aiInsights' = 3
    /\ mfoLoading' = FALSE
    /\ loadingStep' = NoStep
    /\ runs' = RemoveAt(runs, k)
    /\ keyEnv' = RenderEnv
    /\ UNCHANGED <<mfoWaterBudget, mfoMode, useClientSide, backendStatus, health>>

\* optimizeFarmsClientSide(sampleFarms, waterBudget, mode) in the closure of run r
fallbackData(r) == optimizeFarmsClientSide(sampleFarms, r.waterBudget, r.mode)

\* if (useClientSide || backendStatus === 'offline')
prefersClientSide(r) == r.useClientSide \/ r.backendStatus = "offline"

\* the last delay ends and the try block starts: the client-side branch
RunClientSide(k) ==
    /\ runs[k].stage = "wait4"
    /\ prefersClientSide(runs[k])
    /\ finishRun(k, fallbackData(runs[k]), "fallback")

\* the try block starts: POST /optimize-farms is sent and awaited
RunFetch(k) ==
    /\ runs[k].stage = "wait4"
    /\ ~prefersClientSide(runs[k])
    /\ runs' = [runs EXCEPT ![k].stage = "fetch"]
    /\ UNCHANGED <<mfoWaterBudget, mfoMode, mfoResult, mfoLoading, loadingStep,
                   useClientSide, backendStatus, aiInsights, health, keyEnv,
                   resultSource>>

\* the answer of POST /optimize-farms to the body {farms, water_budget, mode}
backendOptimizeFarms(r) == optimizeFarmsClientSide(sampleFarms, r.waterBudget, r.mode)

\* an ok response whose body parses: handleSuccess(data)
RunResponseOk(k) ==
    /\ runs[k].stage = "fetch"
    /\ finishRun(k, backendOptimizeFarms(runs[k]), "backend")

\* a catch block that only logs: the result stays null
runCatch_LeavesNull(k) ==
    /\ runs[k].stage = "fetch"
    /\ mfoLoading' = FALSE
    /\ loadingStep' = NoStep
    /\ runs' = RemoveAt(runs, k)
    /\ keyEnv' = RenderEnv
    /\ UNCHANGED <<mfoWaterBudget, mfoMode, mfoResult, resultSource, aiInsights,
                   useClientSide, backendStatus, health>>

\* the catch block: handleSuccess(optimizeFarmsClientSide(...))
runCatch(k) ==
    /\ runs[k].stage = "fetch"
    /\ finishRun(k, fallbackData(runs[k]), "fallback")

\* if (!res.ok) throw new Error("Backend error")
RunResponseNotOk(k) == runCatch(k)

\* fetch rejects
RunNetworkError(k) == runCatch(k)

\* res.json() rejects
RunBadJson(k) == runCatch(k)

(* the other handlers *)
\* setResult(null); setAiInsights([]); setLoading(false)
handleReset ==
    /\ mfoResult' = NoResult
    /\ resultSource' = "none"
    /\ aiInsights' = 0
    /\ mfoLoading' = FALSE
    /\ keyEnv' = RenderEnv
    /\ UNCHANGED <<mfoWaterBudget, mfoMode, loadingStep, useClientSide,
                   backendStatus, health, runs>>

\* handleKeyDown: "r" with a result
PressR ==
    /\ mfoResult # NoResult
    /\ handleReset

\* the reset button of the results header
ClickReset ==
    /\ ~mfoLoading
    /\ mfoResult # NoResult
    /\ handleReset

\* GlassDropdown onChange: setMode(val)
SetMode(m) ==
    /\ m # mfoMode
    /\ mfoMode' = m
    /\ keyEnv' = RenderEnv
    /\ UNCHANGED <<mfoWaterBudget, mfoResult, mfoLoading, loadingStep,
                   useClientSide, backendStatus, aiInsights, health, runs,
                   resultSource>>

\* the slider's onChange: setWaterBudget(parseInt(e.target.value))
SetWaterBudget(v) ==
    /\ v # mfoWaterBudget
    /\ mfoWaterBudget' = v
    /\ keyEnv' = RenderEnv
    /\ UNCHANGED <<mfoMode, mfoResult, mfoLoading, loadingStep, useClientSide,
                   backendStatus, aiInsights, health, runs, resultSource>>

MfoTypeOK ==
    /\ mfoWaterBudget \in SliderChoices
    /\ mfoMode \in Modes
    /\ mfoLoading \in BOOLEAN
    /\ useClientSide \in BOOLEAN
    /\ backendStatus \in {"checking", "online", "offline"}
    /\ aiInsights \in {0, 3}
    /\ health \in {"fetching", "done"}
    /\ Len(runs) <= MaxRuns
    /\ resultSource \in {"none", "backend", "fallback"}
    /\ resultSource = "none" <=> mfoResult = NoResult

(* Claims about the MultiFarmOptimizer component *)

\* the "Offline Mode (Demo Data)" badge is rendered
OfflineBadgeShown == backendStatus = "offline"

\* C12: whenever the displayed result was computed by the client-side
\* fallback, the offline badge is shown: a fallback result is never
\* displayed while backendStatus is "online" or "checking".
C12_FallbackFlagged ==
    resultSource = "fallback" => OfflineBadgeShown

\* the timers the event loop holds: the 8000 ms abort timer of the health
\* check while GET /health is pending (cleared when it answers), and the
\* setTimeout of the awaited delay of each run that has not reached its
\* fetch. POST /optimize-farms is sent without a signal and without a timer
MfoPendingTimers ==
    (IF health = "fetching" THEN {"healthAbort"} ELSE {})
        \cup {runs[k].stage : k \in {j \in 1..Len(runs) :
                   runs[j].stage \in {"wait1", "wait2", "wait3", "wait4"}}}

\* C15: no operation blocks on a network call: every backend request is
\* bounded by a timeout, so while the component is loading, there is always
\* a timer pending that will end the wait even if the backend never answers.
C15_RequestsBounded ==
    mfoLoading => MfoPendingTimers # {}

\* the results dashboard is rendered: !loading && result && !result.error
ResultDisplayed == ~mfoLoading /\ mfoResult # NoResult

RunEnds == Len(runs') < Len(runs)

\* what the end of a run leaves: loading false, loadingStep "", and as the
\* result the backend's data after an ok response, else the client-side
\* result for the budget and mode the run captured when it started
RunEndsWell ==
    RunEnds =>
        \E k \in 1..Len(runs) :
            /\ runs' = RemoveAt(runs, k)
            /\ mfoLoading' = FALSE
            /\ loadingStep' = NoStep
            /\ mfoResult' # NoResult
            /\ IF resultSource' = "backend"
               THEN /\ runs[k].stage = "fetch"
                    /\ mfoResult' = backendOptimizeFarms(runs[k])
               ELSE /\ resultSource' = "fallback"
                    /\ mfoResult' =
                          optimizeFarmsClientSide(sampleFarms, runs[k].waterBudget,
                                                  runs[k].mode)

\* C23: every run of optimizeFarms ends with loading = false,
\* loadingStep = "" and a non-null result: the backend's data after an ok
\* response, the client-side result for the captured budget and mode after
\* a non-ok response, a network error or an unparsable body.
C23_RunEndsWithResult == [][RunEndsWell]_mfoVars

\* C23 witness: a run whose backend call failed has ended with the
\* client-side result, although the backend was taken to be online and the
\* slider was moved during the run.
C23_Witness ==
    /\ runs = <<>>
    /\ ~mfoLoading
    /\ backendStatus = "online"
    /\ resultSource = "fallback"
    /\ mfoResult # NoResult
    /\ mfoResult.water_used > mfoWaterBudget

\* C24: at most one run of optimizeFarms is in flight: during a run loading
\* is true and result is null, so neither the button, nor Space, nor "r"
\* can act, and no run ends while another one is executing.
C24_OneRunInFlight ==
    /\ Len(runs) <= 1
    /\ runs # <<>> =>
          /\ mfoLoading
          /\ mfoResult = NoResult
          /\ ~ButtonEnabled
          /\ ~SpaceEnabled

\* C24 witness: a run waits for the answer of the backend.
C24_Witness ==
    /\ Len(runs) = 1
    /\ runs[1].stage = "fetch"
    /\ mfoLoading
    /\ health = "done"

\* a run that starts when the health check has found the backend offline
\* takes the client-side branch
OfflineStartIsClientSide ==
    (backendStatus = "offline" /\ Len(runs') > Len(runs)) =>
        prefersClientSide(runs'[Len(runs')])

\* C25: once backendStatus is "offline", every run started afterwards, by
\* the button or by Space, computes client-side and sends no request to
\* /optimize-farms.
C25_OfflineRunsClientSide == [][OfflineStartIsClientSide]_mfoVars

\* the only change of backendStatus and useClientSide: from "checking" to
\* "online" by an ok answer of /health, or to "offline" otherwise
StatusStep ==
    /\ backendStatus = "checking"
    /\ backendStatus' \in {"online", "offline"}
    /\ backendStatus' = "online" <=> HealthOk
    /\ backendStatus' = "offline" <=> (HealthNotOk \/ HealthError \/ HealthAbort)

\* C27: useClientSide is true exactly when backendStatus is "offline";
\* backendStatus is "checking" until the mount-time health check ends, which
\* sets it to "online" on an ok response only and to "offline" otherwise;
\* it never returns to "checking".
C27_ClientSideIffOffline ==
    /\ [](useClientSide <=> backendStatus = "offline")
    /\ [](backendStatus = "checking" <=> health = "fetching")
    /\ [][StatusStep]_<<backendStatus, useClientSide>>

\* C27 witness: a run has ended after the health check failed.
C27_Witness ==
    /\ backendStatus = "offline"
    /\ useClientSide
    /\ health = "done"
    /\ resultSource = "fallback"

(***************************************************************************)
(* RainIntelligence (web/src/components/dashboard/RainIntelligence.tsx).   *)
(***************************************************************************)
VARIABLES
    location,     \* useState location
    forecast,     \* useState forecast (NoForecast is null)
    rainLoading,  \* useState loading
    rainCall      \* the call of checkRainForecast in progress, or NoCall

rainVars == <<location, forecast, rainLoading, rainCall>>

\* the keys of locationMap, which are the options of the select
Locations ==
    {"Chennai, Tamil Nadu", "Rajasthan (Jaipur)", "Gujarat (Ahmedabad)",
     "Maharashtra (Mumbai)", "Karnataka (Bangalore)", "Delhi NCR",
     "Punjab (Ludhiana)", "Telangana (Hyderabad)",
     "Andhra Pradesh (Visakhapatnam)", "California, USA"}

NoForecast == [none |-> TRUE]

NoCall == [none |-> TRUE]

\* the statuses of a response that is not ok, as far as the model tries them
HttpErrorStatuses == {404, 500, 503}

\* { error: `Failed to fetch forecast: ${error.message}` }
ForecastError(message, status) == [error |-> [message |-> message, status |-> status]]

\* the body of an ok answer of GET /rain-forecast: the advisor's signal
RainForecastBodies ==
    {[decision |-> "WAIT", should_wait |-> TRUE],
     [decision |-> "PROCEED", should_wait |-> FALSE]}

IsForecastError(f) == f # NoForecast /\ "error" \in DOMAIN f

rainIdle ==
    /\ location = "Chennai, Tamil Nadu"
    /\ forecast = NoForecast
    /\ rainLoading = FALSE
    /\ rainCall = NoCall

RainInit == rainIdle

\* <select onChange={(e) => setLocation(e.target.value)}>
SetLocation(l) ==
    /\ l # location
    /\ location' = l
    /\ UNCHANGED <<forecast, rainLoading, rainCall>>

\* the button (disabled={loading}) calls checkRainForecast: setLoading(true);
\* setForecast(null); coords = locationMap[location]; await fetch(url)
ClickCheckRain ==
    /\ ~rainLoading
    /\ rainCall = NoCall
    /\ rainLoading' = TRUE
    /\ forecast' = NoForecast
    /\ rainCall' = [coords |-> location]
    /\ UNCHANGED location

\* the call ends: the state update of the try or catch block, then finally
endRainCall(f) ==
    /\ rainCall # NoCall
    /\ forecast' = f
    /\ rainLoading' = FALSE
    /\ rainCall' = NoCall
    /\ UNCHANGED location

\* an ok response whose body parses: setForecast(data)
RainResponseOk(body) == endRainCall(body)

\* if (!res.ok) throw new Error(`HTTP error! status: ${res.status}`)
RainResponseNotOk(status) == endRainCall(ForecastError("HTTP error! status:", status))

\* fetch rejects
RainNetworkError == endRainCall(ForecastError("Failed to fetch", 0))

\* res.json() rejects
RainBadJson == endRainCall(ForecastError("Unexpected token", 0))

\* the headline of the decision card; "" when the card is not rendered
\* (forecast && !forecast.error)
RainHeadline ==
    IF forecast = NoForecast \/ IsForecastError(forecast) THEN ""
    ELSE IF forecast.decision = "WAIT" THEN "DEFER CLEANING"
    ELSE "PROCEED WITH CLEANING"

\* the error box is rendered (forecast?.error)
RainErrorShown == IsForecastError(forecast)

(* Claims about RainIntelligence *)

\* C14: whenever the rain forecast could not be obtained (the fetch threw
\* or answered non-ok), checkRainForecast ends with the decision PROCEED:
\* not WAIT, not undecided, not still loading.
C14_FailSafeProceed ==
    RainErrorShown =>
        /\ ~rainLoading
        /\ RainHeadline = "PROCEED WITH CLEANING"

(***************************************************************************)
(* LivePreview (web/src/components/landing/Metrics.tsx).  The file defines *)
(* the component twice; livePreview says which definition runs.            *)
(***************************************************************************)
VARIABLES
    livePreview,     \* "first" (lines 99-378) or "second" (lines 414-805)
    data,            \* useState data (NoData is null)
    liveLoading,     \* useState loading
    analyzingText,   \* useState analyzingText
    hasRunAnalysis,  \* useState hasRunAnalysis
    inputs,          \* useState inputs
    analyses,        \* the clicks on Run Analysis still at work, oldest first
    dataSource       \* where data came from: "none", "backend", "fallback"

liveVars == <<livePreview, data, liveLoading, analyzingText, hasRunAnalysis,
              inputs, analyses, dataSource>>

\* bound: the clicks at work at once
MaxAnalyses == 2

NoData == [none |-> TRUE]

NoExplanation == [none |-> TRUE]

\* useState({...}); the first definition has no plantCapacityMW (0 here)
InitialInputs(v) ==
    IF v = "first"
    THEN [location |-> "Chennai, India", carbonPriority |-> 50,
          cleaningCost |-> 1500, plantCapacityMW |-> 0]
    ELSE [location |-> "Chennai, Tamil Nadu", carbonPriority |-> 50,
          cleaningCost |-> 1500, plantCapacityMW |-> 25]

\* the values the onChange handlers of the four controls are tried with
InputChoices(v) ==
    [location : IF v = "first" THEN {"Chennai, India", "Rajasthan, India"}
                ELSE {"Chennai, Tamil Nadu", "Dubai, UAE"},
     carbonPriority : {50, 80},
     cleaningCost : {1500},
     plantCapacityMW : IF v = "first" THEN {0} ELSE {25}]

\* the initial text and the texts of the three timers of handleRunAnalysis
AnalyzingTexts(v) ==
    IF v = "first"
    THEN <<"Analyzing Chennai solar irradiance data...",
           "Fetching NASA satellite data...",
           "Modeling dust degradation physics...",
           "Optimizing carbon vs. water trade-offs...">>
    ELSE <<"Initializing Decision Engine...",
           "Fetching NASA Satellite Data...",
           "Running Dynamic Programming Optimization...",
           "Calculating Sustainability Index (SSES)...">>

\* the object of the catch block of fetchAnalysis (numbers in tenths)
FallbackData(v) ==
    [recommendation |-> "CLEAN",
     cleaning_date |-> "2024-12-15",
     total_output_gain_percent |-> 125,
     recoverable_capture_percent |-> 452,
     additional_energy_kwh |-> 1250,
     carbon_saved_kg |-> 875,
     net_economic_gain_inr |-> 24500,
     water_used_liters |-> 5000,
     explanation |->
        IF v = "first" THEN NoExplanation
        ELSE [model |-> "Dynamic Programming (Offline)",
              reason |-> "Simulated fallback data due to connection error.",
              optimization_score |-> 1000]]

\* a cleaning_date of null
NullDate == "null"

\* the body of an ok answer of GET /analyze: a Decision of the engine
\* (numbers in tenths)
AnalyzeBodies ==
    {[recommendation |-> "CLEAN",
      cleaning_date |-> "2024-12-20",
      total_output_gain_percent |-> 98,
      recoverable_capture_percent |-> 611,
      additional_energy_kwh |-> 3200,
      carbon_saved_kg |-> 2624,
      net_economic_gain_inr |-> 5800,
      water_used_liters |-> 5000,
      explanation |-> [model |-> "Dynamic Programming",
                       reason |-> "Optimal trade-off between soiling loss and cleaning cost.",
                       optimization_score |-> 940]],
     [recommendation |-> "WAIT",
      cleaning_date |-> NullDate,
      total_output_gain_percent |-> 0,
      recoverable_capture_percent |-> 0,
      additional_energy_kwh |-> 0,
      carbon_saved_kg |-> 0,
      net_economic_gain_inr |-> 0,
      water_used_liters |-> 0,
      explanation |-> [model |-> "Rain Forecast",
                       reason |-> "Rain expected within 48 hours.",
                       optimization_score |-> 0]]}

liveIdle ==
    /\ livePreview = "second"
    /\ data = NoData
    /\ liveLoading = FALSE
    /\ analyzingText = AnalyzingTexts("second")[1]
    /\ hasRunAnalysis = FALSE
    /\ inputs = InitialInputs("second")
    /\ analyses = <<>>
    /\ dataSource = "none"

LiveInit ==
    /\ livePreview \in {"first", "second"}
    /\ data = NoData
    /\ liveLoading = FALSE
    /\ analyzingText = AnalyzingTexts(livePreview)[1]
    /\ hasRunAnalysis = FALSE
    /\ inputs = InitialInputs(livePreview)
    /\ analyses = <<>>
    /\ dataSource = "none"

\* onChange of a control: setInputs({ ...inputs, field: value })
SetInputs(v) ==
    /\ v # inputs
    /\ \E f \in DOMAIN inputs : v = [inputs EXCEPT ![f] = v[f]]
    /\ inputs' = v
    /\ UNCHANGED <<livePreview, data, liveLoading, analyzingText, hasRunAnalysis,
                   analyses, dataSource>>

\* the Run Analysis button is enabled (disabled={loading})
RunAnalysisEnabled == ~liveLoading

\* handleRunAnalysis: setHasRunAnalysis(true) and four setTimeout calls;
\* the callbacks belong to this render and keep its inputs
ClickRunAnalysis ==
    /\ RunAnalysisEnabled
    /\ Len(analyses) < MaxAnalyses
    /\ hasRunAnalysis' = TRUE
    /\ analyses' = Append(analyses, [inputs |-> inputs, fired |-> 0, stage |-> "timers"])
    /\ UNCHANGED <<livePreview, data, liveLoading, analyzingText, inputs, dataSource>>

\* timers set with the same delay fire in the order they were set
TimerOrder(k) ==
    IF k = 1 THEN TRUE
    ELSE IF analyses[k - 1].stage = "fetch" THEN TRUE
    ELSE analyses[k - 1].fired > analyses[k].fired

\* one of the first three timers: setAnalyzingText(...)
LiveTextTimer(k) ==
    /\ analyses[k].stage = "timers"
    /\ analyses[k].fired < 3
    /\ TimerOrder(k)
    /\ analyses' = [analyses EXCEPT ![k].fired = @ + 1]
    /\ analyzingText' = AnalyzingTexts(livePreview)[analyses[k].fired + 2]
    /\ UNCHANGED <<livePreview, data, liveLoading, hasRunAnalysis, inputs, dataSource>>

\* the last timer: setLoading(false); fetchAnalysis(), which runs up to its
\* await: setLoading(true); setData(null); fetch(/analyze?...)
LiveFetchTimer(k) ==
    /\ analyses[k].stage = "timers"
    /\ analyses[k].fired = 3
    /\ IF k = 1 THEN TRUE ELSE analyses[k - 1].stage = "fetch"
    /\ analyses' = [analyses EXCEPT ![k].stage = "fetch"]
    /\ liveLoading' = TRUE
    /\ data' = NoData
    /\ dataSource' = "none"
    /\ UNCHANGED <<livePreview, analyzingText, hasRunAnalysis, inputs>>

\* fetchAnalysis ends: setData of the try or catch block, then finally
endAnalysis(k, d, source) ==
    /\ analyses[k].stage = "fetch"
    /\ data' = d
    /\ dataSource' = source
    /\ liveLoading' = FALSE
    /\ analyses' = RemoveAt(analyses, k)
    /\ UNCHANGED <<livePreview, analyzingText, hasRunAnalysis, inputs>>

\* an ok response whose body parses: setData(json)
LiveResponseOk(k, body) == endAnalysis(k, body, "backend")

\* if (!res.ok) throw new Error("Failed to fetch analysis")
LiveResponseNotOk(k) == endAnalysis(k, FallbackData(livePreview), "fallback")

\* fetch rejects
LiveNetworkError(k) == endAnalysis(k, FallbackData(livePreview), "fallback")

\* res.json() rejects
LiveBadJson(k) == endAnalysis(k, FallbackData(livePreview), "fallback")

(* Claims about LivePreview *)

\* the Decision says of itself that it is simulated or offline data
LabelledAsFallback(d) ==
    /\ d.explanation # NoExplanation
    /\ \/ d.explanation.model = "Dynamic Programming (Offline)"
       \/ d.explanation.reason = "Simulated fallback data due to connection error."

\* C13: when the /analyze request fails, the fallback Decision stored in
\* data carries an explanation that labels it as simulated or offline data;
\* a fabricated Decision is never stored without such a label.
C13_FallbackLabelled ==
    dataSource = "fallback" => LabelledAsFallback(data)

\* the /analyze requests that are sent and not yet answered
RequestsInFlight == {k \in 1..Len(analyses) : analyses[k].stage = "fetch"}

\* C26: from a click on Run Analysis until that analysis has stored its
\* data no second analysis can be started: the button is disabled for the
\* whole interval, the staged delay before fetchAnalysis included, so at
\* most one click is at work and at most one /analyze request is in flight.
C26_SingleAnalysis ==
    /\ analyses # <<>> => ~RunAnalysisEnabled
    /\ Len(analyses) <= 1
    /\ Cardinality(RequestsInFlight) <= 1

(***************************************************************************)
(* SingleSiteDecisionEngine: the backend behind GET /analyze, with its     *)
(* DegradationModel, ScenarioSimulator and RainForecastAdvisor.  The web   *)
(* client has only its Decision type (AnalysisData) and the notes of the   *)
(* stress test; the engine is written here from its design (4.1 to 4.4, 5  *)
(* and 6).  Days are offsets in the horizon, a loss is in 1/10000 of the   *)
(* clean output, dust_rate in tenths, money in tenths of a rupee.          *)
(***************************************************************************)
VARIABLES
    engState,  \* the state of the engine's state machine
    site,      \* the inputs of the request
    day,       \* the next candidate day of the scan
    best,      \* the best ScenarioResult so far, or NoBest
    decision   \* the Decision, or NoDecision before a terminal state

engVars == <<engState, site, day, best, decision>>

\* horizon_days = 30 (days=30 of GET /analyze)
HorizonDays == 30

\* the empirical constant k: 0.002 per unit of dust_rate and day
LossPerDustDay == 2

\* max_loss: 30 % of the clean output
MaxLoss == 3000

\* no cleaning_date_override, and a cleaning_date of null
NoDay == -1

NoBest == [none |-> TRUE]

NoDecision == [none |-> TRUE]

\* the inputs the model tries: dust_rate 0, 0.9, 1.2, 1.5 and 10.0 (which
\* reaches max_loss within the horizon); the revenue of one day of clean
\* output in thousands of rupees, for a small array and for 125000 m2;
\* carbon_weight in tenths; the forced cleaning days of the stress test
DustRates == {0, 9, 12, 15, 100}

DailyRevenues == {4, 894}

CleaningCosts == {1500}

CarbonWeights == {0, 5, 10}

Overrides == {NoDay, 5, 15, 25}

RainSignals == {"WAIT", "PROCEED", "ForecastUnavailable"}

Sites ==
    [dust_rate : DustRates, daily_revenue : DailyRevenues,
     cleaning_cost : CleaningCosts, carbon_weight : CarbonWeights,
     override : Overrides, rain : RainSignals]

Min(a, b) == IF a < b THEN a ELSE b

\* DegradationModel: clamp(dust_rate * days_since_clean * k, 0, max_loss)
efficiencyLossFraction(dust_rate, days_since_clean) ==
    Min(dust_rate * days_since_clean * LossPerDustDay, MaxLoss)

RECURSIVE SumDays(_, _, _)
SumDays(f(_), a, b) == IF a > b THEN 0 ELSE f(a) + SumDays(f, a + 1, b)

\* the output lost to dust in the horizon when an array of this dust_rate,
\* clean on day 0, is not cleaned at all (in days of clean output / 10000)
lossWithoutCleaningOf(dust_rate) ==
    LET loss(t) == efficiencyLossFraction(dust_rate, t)
    IN  SumDays(loss, 0, HorizonDays - 1)

\* mutant of recoveredOutputOf: the array stays clean after the cleaning
recoveredOutputOf_NoReaccumulation(dust_rate, d) ==
    LET gain(t) == efficiencyLossFraction(dust_rate, t)
    IN  SumDays(gain, d, HorizonDays - 1)

\* mutant of recoveredOutputOf: the days before the cleaning are counted
\* instead of the days after it
recoveredOutputOf_DaysBefore(dust_rate, d) ==
    LET gain(t) == efficiencyLossFraction(dust_rate, t)
    IN  SumDays(gain, 0, d - 1)

\* ScenarioSimulator: (degraded output before d) + (restored output after
\* d), less the output without cleaning: on each day t >= d the array has
\* the loss of t - d days instead of that of t days
recoveredOutputOf(dust_rate, d) ==
    LET gain(t) == efficiencyLossFraction(dust_rate, t)
                       - efficiencyLossFraction(dust_rate, t - d)
    IN  SumDays(gain, d, HorizonDays - 1)

\* both, tabulated for the dust rates and the days of the model
lossWithoutCleaningTable ==
    [r \in DustRates |-> lossWithoutCleaningOf(r)]

recoveredOutputTable ==
    [r \in DustRates |-> [d \in 0..(HorizonDays - 1) |-> recoveredOutputOf(r, d)]]

lossWithoutCleaning(s) == lossWithoutCleaningTable[s.dust_rate]

recoveredOutput(s, d) == recoveredOutputTable[s.dust_rate][d]

\* the value of the recovered output less the cleaning cost
netEconomicGain(s, d) ==
    recoveredOutput(s, d) * s.daily_revenue - s.cleaning_cost * 10

\* the fraction of the maximum possible loss that cleaning on day d recovers
recoverableCapture(s, d) ==
    IF lossWithoutCleaning(s) = 0 THEN Whole(0)
    ELSE Quot(recoveredOutput(s, d), lossWithoutCleaning(s))

\* w_carbon * normalized_carbon + (1 - w_carbon) * normalized_financial,
\* both normalized by the clean output of the horizon (times 10): the
\* carbon share counts the recovered output, the financial share the
\* recovered output less the cleaning cost
blendedScore(s, d) ==
    10 * recoveredOutput(s, d) * s.daily_revenue
        - (10 - s.carbon_weight) * s.cleaning_cost * 10

ScenarioResult(s, d) ==
    [day_offset |-> d,
     score |-> blendedScore(s, d),
     net_benefit |-> netEconomicGain(s, d),
     recoverable_capture |-> recoverableCapture(s, d)]

\* the scan keeps the first day of the highest score
Better(r, b) == b = NoBest \/ r.score > b.score

\* the Decision of a scenario search that ended with the result r
DecisionOf(s, r, partial) ==
    LET clean == s.override # NoDay \/ r.net_benefit > 0
    IN  [recommendation |-> IF clean THEN "CLEAN" ELSE "WAIT",
         cleaning_date |-> IF clean THEN r.day_offset ELSE NoDay,
         net_economic_gain |-> r.net_benefit,
         recoverable_capture_percent |-> r.recoverable_capture,
         partial |-> partial]

\* the Decision of WAIT_TERMINAL
WaitDecision ==
    [recommendation |-> "WAIT",
     cleaning_date |-> NoDay,
     net_economic_gain |-> 0,
     recoverable_capture_percent |-> Whole(0),
     partial |-> FALSE]

engIdle ==
    /\ engState = "ANALYZING"
    /\ site = [dust_rate |-> 12, daily_revenue |-> 894, cleaning_cost |-> 1500,
               carbon_weight |-> 5, override |-> NoDay, rain |-> "PROCEED"]
    /\ day = 0
    /\ best = NoBest
    /\ decision = NoDecision

EngineInit ==
    /\ engState = "ANALYZING"
    /\ site \in Sites
    /\ day = 0
    /\ best = NoBest
    /\ decision = NoDecision

\* ANALYZING -> RAIN_CHECK: the RainForecastAdvisor runs first
StartRainCheck ==
    /\ engState = "ANALYZING"
    /\ engState' = "RAIN_CHECK"
    /\ UNCHANGED <<site, day, best, decision>>

\* mutant of RainWait: the WAIT of the advisor does not end the run
RainWait_SearchesAnyway ==
    /\ engState = "RAIN_CHECK"
    /\ site.rain = "WAIT"
    /\ engState' = "SCENARIO_SEARCH"
    /\ day' = IF site.override = NoDay THEN 0 ELSE site.override
    /\ UNCHANGED <<site, best, decision>>

\* RAIN_CHECK -> WAIT_TERMINAL: a WAIT of the advisor ends the run
RainWait ==
    /\ engState = "RAIN_CHECK"
    /\ site.rain = "WAIT"
    /\ engState' = "WAIT_TERMINAL"
    /\ decision' = WaitDecision
    /\ UNCHANGED <<site, day, best>>

\* RAIN_CHECK -> SCENARIO_SEARCH: PROCEED, also when the forecast is
\* unavailable (fail-safe)
RainProceed ==
    /\ engState = "RAIN_CHECK"
    /\ site.rain \in {"PROCEED", "ForecastUnavailable"}
    /\ engState' = "SCENARIO_SEARCH"
    /\ day' = IF site.override = NoDay THEN 0 ELSE site.override
    /\ UNCHANGED <<site, best, decision>>

\* the scan has no candidate left
ScanDone ==
    \/ day >= HorizonDays
    \/ site.override # NoDay /\ best # NoBest

\* one candidate day of the scan
EvaluateDay ==
    /\ engState = "SCENARIO_SEARCH"
    /\ ~ScanDone
    /\ LET r == ScenarioResult(site, day)
       IN  best' = IF Better(r, best) THEN r ELSE best
    /\ day' = day + 1
    /\ UNCHANGED <<engState, site, decision>>

\* SCENARIO_SEARCH -> DECISION_TERMINAL at the end of the scan
Decide ==
    /\ engState = "SCENARIO_SEARCH"
    /\ ScanDone
    /\ engState' = "DECISION_TERMINAL"
    /\ decision' = DecisionOf(site, best, FALSE)
    /\ UNCHANGED <<site, day, best>>

\* the deadline of the request ends the scan early: the best candidate
\* found so far, tagged as a partial result
Deadline ==
    /\ engState = "SCENARIO_SEARCH"
    /\ ~ScanDone
    /\ best # NoBest
    /\ engState' = "DECISION_TERMINAL"
    /\ decision' = DecisionOf(site, best, TRUE)
    /\ UNCHANGED <<site, day, best>>

EngineTerminal == engState \in {"WAIT_TERMINAL", "DECISION_TERMINAL"}

(* Claims about the single-site engine *)

\* ANALYZING -> RAIN_CHECK -> (WAIT_TERMINAL | SCENARIO_SEARCH) -> DECISION_TERMINAL
EngineEdges ==
    {<<"ANALYZING", "RAIN_CHECK">>, <<"RAIN_CHECK", "WAIT_TERMINAL">>,
     <<"RAIN_CHECK", "SCENARIO_SEARCH">>, <<"SCENARIO_SEARCH", "DECISION_TERMINAL">>}

\* a step of the engine follows an edge of the state machine
EngineEdgeTaken == <<engState, engState'>> \in EngineEdges

\* C17: the engine moves only along ANALYZING -> RAIN_CHECK ->
\* (WAIT_TERMINAL | SCENARIO_SEARCH) -> DECISION_TERMINAL, so the rain
\* check precedes every scenario search and a terminal state is never left;
\* after a WAIT of the advisor no scenario is ever evaluated; a WAIT
\* Decision has cleaning_date = null; every run reaches a terminal state.
C17_StateMachine ==
    /\ [][EngineEdgeTaken]_engState
    /\ [](site.rain = "WAIT" => best = NoBest /\ engState # "SCENARIO_SEARCH")
    /\ [](EngineTerminal <=> decision # NoDecision)
    /\ [](engState = "WAIT_TERMINAL" => decision = WaitDecision)
    /\ [](decision # NoDecision /\ decision.recommendation = "WAIT"
              => decision.cleaning_date = NoDay)
    /\ <>EngineTerminal

\* a run ended in WAIT_TERMINAL on the WAIT of the advisor, with no cleaning
\* date and no scenario evaluated
C17_Witness ==
    /\ engState = "WAIT_TERMINAL"
    /\ site.rain = "WAIT"
    /\ decision.cleaning_date = NoDay
    /\ best = NoBest

C20_InteriorDay ==
    (engState = "DECISION_TERMINAL" /\ site.override = NoDay
        /\ decision.recommendation # "WAIT") =>
        /\ decision.cleaning_date > 0
        /\ decision.cleaning_date < HorizonDays - 1

\* a full scan ended with a recommendation to clean
C20_Witness ==
    /\ engState = "DECISION_TERMINAL"
    /\ site.override = NoDay
    /\ ~decision.partial
    /\ decision.recommendation = "CLEAN"

(***************************************************************************)
(* LiveEnginePreview (unnamed/part_004, lines 152-326), which LivePreview  *)
(* renders while it has neither data nor a request running.                *)
(*                                                                         *)
(* A state update is followed by a render and then by the effect of that   *)
(* render; React runs a pending effect before it handles the next click or *)
(* applies the next update.  Timers carry the time left until they are     *)
(* due; a timer that is due fires before more time passes.                 *)
(***************************************************************************)
VARIABLES
    demoMounted,  \* the component is mounted
    step,         \* useState step
    isRunning,    \* useState isRunning
    timers,       \* the pending timers: the auto-run timer of the mount effect
                  \* and the timers of the step effect, each with the step of
                  \* its closure and the time left (ms)
    effectDue,    \* step or isRunning changed and the effect has not run yet
    demoRuns,     \* the runs started so far
    shown         \* the steps rendered since the last run started

demoVars == <<demoMounted, step, isRunning, timers, effectDue, demoRuns, shown>>

\* bound: the runs of the demo
MaxDemoRuns == 4

\* const steps = [...], by title; steps[step] of the source is steps[step + 1]
steps ==
    <<"Analyzing Environment", "Modeling Degradation", "Optimizing Schedule",
      "Recommendation Ready">>

\* steps.length - 1
lastStep == Len(steps) - 1

\* the delays of the two setTimeout calls (ms)
AutoRunDelay == 1000
StepDelay == 2000

\* bound: the grain of time, in divisions of the shorter delay
TimeDivisions == 2

\* the time that passes in one step of the clock
TimeStep == AutoRunDelay \div TimeDivisions

Timer(kind, closureStep, left) == [kind |-> kind, step |-> closureStep, left |-> left]

\* after the mount: both effects have run, the first one without effect,
\* the second one has armed the auto-run timer
demoIdle ==
    /\ demoMounted = TRUE
    /\ step = 0
    /\ isRunning = FALSE
    /\ timers = {Timer("auto", 0, AutoRunDelay)}
    /\ effectDue = FALSE
    /\ demoRuns = 0
    /\ shown = <<>>

DemoInit == demoIdle

\* time passes while no timer is due and no effect is pending
DemoElapse ==
    /\ ~effectDue
    /\ timers # {}
    /\ \A t \in timers : t.left > 0
    /\ timers' = {[t EXCEPT !.left = IF @ > TimeStep THEN @ - TimeStep ELSE 0] : t \in timers}
    /\ UNCHANGED <<demoMounted, step, isRunning, effectDue, demoRuns, shown>>

\* setStep(0); setIsRunning(true): no render when both already hold
runDemo ==
    IF step = 0 /\ isRunning
    THEN UNCHANGED <<step, isRunning, effectDue, demoRuns, shown>>
    ELSE /\ step' = 0
         /\ isRunning' = TRUE
         /\ effectDue' = TRUE
         /\ demoRuns' = demoRuns + 1
         /\ shown' = <<0>>

\* the timer of the mount effect: if (!isRunning) runDemo(), isRunning being
\* the false of the first render
DemoAutoRun ==
    /\ ~effectDue
    /\ \E t \in timers :
          /\ t.kind = "auto"
          /\ t.left = 0
          /\ timers' = timers \ {t}
    /\ runDemo
    /\ UNCHANGED demoMounted

\* the button "Run Live Demo", rendered when !isRunning && step === 0
ClickRunLiveDemo ==
    /\ demoMounted
    /\ ~effectDue
    /\ ~isRunning
    /\ step = 0
    /\ runDemo
    /\ UNCHANGED <<demoMounted, timers>>

\* the button "Run Again", rendered when step === steps.length - 1
ClickRunAgain ==
    /\ demoMounted
    /\ ~effectDue
    /\ step = lastStep
    /\ demoRuns < MaxDemoRuns
    /\ runDemo
    /\ UNCHANGED <<demoMounted, timers>>

\* a step timer fires: setStep(step + 1) with the step of its closure
DemoTick(t) ==
    /\ t \in timers
    /\ t.kind = "step"
    /\ t.left = 0
    /\ ~effectDue
    /\ timers' = timers \ {t}
    /\ step' = t.step + 1
    /\ effectDue' = (t.step + 1 # step)
    /\ shown' = IF t.step + 1 # step THEN Append(shown, t.step + 1) ELSE shown
    /\ UNCHANGED <<demoMounted, isRunning, demoRuns>>

\* the timers that the cleanup of the step effect leaves
AfterCleanup == {t \in timers : t.kind # "step"}

\* an effect that arms a timer whenever isRunning and never stops the run
DemoEffect_NeverStops ==
    /\ effectDue
    /\ timers' = AfterCleanup \cup
                   (IF isRunning THEN {Timer("step", step, StepDelay)} ELSE {})
    /\ effectDue' = FALSE
    /\ UNCHANGED <<demoMounted, step, isRunning, demoRuns, shown>>

\* the effect on [isRunning, step]: the cleanup of its last run clears the
\* timer of that run; then it arms a timer, or ends the run at the last step
DemoEffect ==
    /\ effectDue
    /\ timers' = AfterCleanup \cup
                   (IF isRunning /\ step < lastStep
                    THEN {Timer("step", step, StepDelay)} ELSE {})
    /\ IF step = lastStep /\ isRunning
       THEN /\ isRunning' = FALSE
            /\ effectDue' = TRUE
       ELSE /\ effectDue' = FALSE
            /\ UNCHANGED isRunning
    /\ UNCHANGED <<demoMounted, step, demoRuns, shown>>

\* LivePreview stops rendering the component: the cleanups clear the timers
DemoUnmount ==
    /\ demoMounted
    /\ demoMounted' = FALSE
    /\ timers' = {}
    /\ effectDue' = FALSE
    /\ UNCHANGED <<step, isRunning, demoRuns, shown>>

(* Claims about LiveEnginePreview *)

IsPrefix(s, t) == Len(s) <= Len(t) /\ s = SubSeq(t, 1, Len(s))

\* the steps in their order: 0, 1, ..., steps.length - 1
StepOrder == [k \in 1..Len(steps) |-> k - 1]

\* step changes by one tick of a running demo, or to 0 by runDemo
StepAdvances ==
    step' # step => (isRunning /\ step' = step + 1) \/ step' = 0

RunComplete == step = lastStep /\ ~isRunning

VARIABLES
    farmSize,        \* useState farmSize (MW)
    gridRows,        \* useState gridRows
    gridCols,        \* useState gridCols
    secWaterBudget,  \* useState waterBudget
    secLoading,      \* useState loading
    secResult,       \* useState result (NoResult is null)
    secCall,         \* the body of the request of the analyzeSections call in
                     \* progress, or NoCall
    secOutcome       \* how the last call ended, and the HTTP status if any

secVars == <<farmSize, gridRows, gridCols, secWaterBudget, secLoading, secResult,
             secCall, secOutcome>>

\* the values of the controls that are tried
FarmSizes == {25, 50}

GridSizes == {5, 7}

SectionBudgets == {25000, 10000}

\* the HTTP statuses of an answer: ok, and two that are not
SectionStatuses == {200, 422, 500}

\* body: JSON.stringify({farm_size_mw, grid_rows, grid_cols, water_budget})
SectionRequest ==
    [farm_size_mw |-> farmSize, grid_rows |-> gridRows, grid_cols |-> gridCols,
     water_budget |-> secWaterBudget]

\* the bodies that parse: the analysis of the request, the detail of an error
SectionBodies(request) ==
    {[analysis_of |-> request], [detail |-> "Internal Server Error"]}

NoOutcome == [how |-> "none", status |-> 0]

secIdle ==
    /\ farmSize = 25
    /\ gridRows = 5
    /\ gridCols = 5
    /\ secWaterBudget = 25000
    /\ secLoading = FALSE
    /\ secResult = NoResult
    /\ secCall = NoCall
    /\ secOutcome = NoOutcome

SectionInit == secIdle

\* onChange={(val) => setFarmSize(Number(val))}
SetFarmSize(v) ==
    /\ v # farmSize
    /\ farmSize' = v
    /\ UNCHANGED <<gridRows, gridCols, secWaterBudget, secLoading, secResult,
                   secCall, secOutcome>>

\* onChange of the grid dropdown: setGridRows(rows); setGridCols(cols)
SetGridSize(n) ==
    /\ n # gridRows
    /\ gridRows' = n
    /\ gridCols' = n
    /\ UNCHANGED <<farmSize, secWaterBudget, secLoading, secResult, secCall,
                   secOutcome>>

\* onChange={(e) => setWaterBudget(parseInt(e.target.value))}
SetSectionBudget(v) ==
    /\ v # secWaterBudget
    /\ secWaterBudget' = v
    /\ UNCHANGED <<farmSize, gridRows, gridCols, secLoading, secResult, secCall,
                   secOutcome>>

\* the button (disabled={loading}): analyzeSections up to its first await:
\* setLoading(true); fetch(POST /analyze-sections)
ClickAnalyzeSections ==
    /\ ~secLoading
    /\ secLoading' = TRUE
    /\ secCall' = SectionRequest
    /\ UNCHANGED <<farmSize, gridRows, gridCols, secWaterBudget, secResult,
                   secOutcome>>

\* const data = await res.json(); setResult(data); finally setLoading(false):
\* res.ok is not tested
SectionResponseParsed(status, body) ==
    /\ secCall # NoCall
    /\ body \in SectionBodies(secCall)
    /\ secResult' = body
    /\ secLoading' = FALSE
    /\ secCall' = NoCall
    /\ secOutcome' = [how |-> "parsed", status |-> status]
    /\ UNCHANGED <<farmSize, gridRows, gridCols, secWaterBudget>>

\* a catch block that also clears the result
sectionCatch_ClearsResult(status) ==
    /\ secCall # NoCall
    /\ secResult' = NoResult
    /\ secLoading' = FALSE
    /\ secCall' = NoCall
    /\ secOutcome' = [how |-> "threw", status |-> status]
    /\ UNCHANGED <<farmSize, gridRows, gridCols, secWaterBudget>>

\* catch (error) { console.error(...) } finally { setLoading(false) }
sectionCatch(status) ==
    /\ secCall # NoCall
    /\ secLoading' = FALSE
    /\ secCall' = NoCall
    /\ secOutcome' = [how |-> "threw", status |-> status]
    /\ UNCHANGED <<farmSize, gridRows, gridCols, secWaterBudget, secResult>>

\* fetch rejects
SectionNetworkError == sectionCatch(0)

\* res.json() rejects
SectionBadJson(status) == sectionCatch(status)

(* Claims about SectionAnalysis *)

CallStarts == secCall = NoCall /\ secCall' # NoCall

CallEnds == secCall # NoCall /\ secCall' = NoCall

\* what a step may do to result
ResultFrame ==
    /\ CallStarts => secResult' = secResult
    /\ (CallEnds /\ secOutcome'.how = "threw") =>
          /\ secResult' = secResult
          /\ secLoading' = FALSE
    /\ secResult' # secResult =>
          /\ CallEnds
          /\ secOutcome'.how = "parsed"
          /\ secResult' \in SectionBodies(secCall)

\* C30: analyzeSections does not clear result when it starts; when the
\* request throws it leaves result as it was and only resets loading;
\* result changes only when a response body is parsed, whatever the HTTP
\* status of the response.
C30_ResultFrame == [][ResultFrame]_secVars

\* C30 witness: a call has thrown and the analysis of an earlier request is
\* still the result, next to controls that have changed since.
C30_Witness ==
    /\ secOutcome.how = "threw"
    /\ ~secLoading
    /\ "analysis_of" \in DOMAIN secResult
    /\ secResult.analysis_of # SectionRequest

(***************************************************************************)
(* Specifications.  Each one runs one part of the program and leaves the   *)
(* variables of the other parts at their idle values.                      *)
(***************************************************************************)
allVars == <<vars, mfoVars, rainVars, liveVars, engVars, demoVars, secVars>>

optRest == <<mfoVars, rainVars, liveVars, engVars, demoVars, secVars>>

mfoRest == <<vars, rainVars, liveVars, engVars, demoVars, secVars>>

rainRest == <<vars, mfoVars, liveVars, engVars, demoVars, secVars>>

liveRest == <<vars, mfoVars, rainVars, engVars, demoVars, secVars>>

engRest == <<vars, mfoVars, rainVars, liveVars, demoVars, secVars>>

demoRest == <<vars, mfoVars, rainVars, liveVars, engVars, secVars>>

secRest == <<vars, mfoVars, rainVars, liveVars, engVars, demoVars>>

OptimizerNext ==
    \/ ScoreFarm /\ UNCHANGED optRest
    \/ Sort /\ UNCHANGED optRest
    \/ SelectFarm /\ UNCHANGED optRest
    \/ Return /\ UNCHANGED optRest

OptimizerInit == Init /\ mfoIdle /\ rainIdle /\ liveIdle /\ engIdle /\ demoIdle /\ secIdle

Spec == OptimizerInit /\ [][OptimizerNext]_allVars

\* the MultiFarmOptimizer component: what the backend and the network do,
\* what the user does, and the timers and continuations of the event loop
MfoNext ==
    \/ HealthOk /\ UNCHANGED mfoRest
    \/ HealthNotOk /\ UNCHANGED mfoRest
    \/ HealthError /\ UNCHANGED mfoRest
    \/ \E k \in 1..Len(runs) : RunResponseOk(k) /\ UNCHANGED mfoRest
    \/ \E k \in 1..Len(runs) : RunResponseNotOk(k) /\ UNCHANGED mfoRest
    \/ \E k \in 1..Len(runs) : RunNetworkError(k) /\ UNCHANGED mfoRest
    \/ \E k \in 1..Len(runs) : RunBadJson(k) /\ UNCHANGED mfoRest
    \/ ClickRun /\ UNCHANGED mfoRest
    \/ PressSpace /\ UNCHANGED mfoRest
    \/ PressR /\ UNCHANGED mfoRest
    \/ ClickReset /\ UNCHANGED mfoRest
    \/ \E m \in Modes : SetMode(m) /\ UNCHANGED mfoRest
    \/ \E v \in SliderChoices : SetWaterBudget(v) /\ UNCHANGED mfoRest
    \/ HealthAbort /\ UNCHANGED mfoRest
    \/ \E k \in 1..Len(runs) : RunTimer(k) /\ UNCHANGED mfoRest
    \/ \E k \in 1..Len(runs) : RunClientSide(k) /\ UNCHANGED mfoRest
    \/ \E k \in 1..Len(runs) : RunFetch(k) /\ UNCHANGED mfoRest

MfoStart == MfoInit /\ optIdle /\ rainIdle /\ liveIdle /\ engIdle /\ demoIdle /\ secIdle

SpecMfo == MfoStart /\ [][MfoNext]_allVars

\* the RainIntelligence component
RainNext ==
    \/ \E l \in Locations : SetLocation(l) /\ UNCHANGED rainRest
    \/ ClickCheckRain /\ UNCHANGED rainRest
    \/ \E body \in RainForecastBodies : RainResponseOk(body) /\ UNCHANGED rainRest
    \/ \E status \in HttpErrorStatuses : RainResponseNotOk(status) /\ UNCHANGED rainRest
    \/ RainNetworkError /\ UNCHANGED rainRest
    \/ RainBadJson /\ UNCHANGED rainRest

RainStart == RainInit /\ optIdle /\ mfoIdle /\ liveIdle /\ engIdle /\ demoIdle /\ secIdle

SpecRain == RainStart /\ [][RainNext]_allVars

\* the LivePreview component, in either definition
LiveNext ==
    \/ \E v \in InputChoices(livePreview) : SetInputs(v) /\ UNCHANGED liveRest
    \/ ClickRunAnalysis /\ UNCHANGED liveRest
    \/ \E k \in 1..Len(analyses) : LiveTextTimer(k) /\ UNCHANGED liveRest
    \/ \E k \in 1..Len(analyses) : LiveFetchTimer(k) /\ UNCHANGED liveRest
    \/ \E k \in 1..Len(analyses), body \in AnalyzeBodies : LiveResponseOk(k, body) /\ UNCHANGED liveRest
    \/ \E k \in 1..Len(analyses) : LiveResponseNotOk(k) /\ UNCHANGED liveRest
    \/ \E k \in 1..Len(analyses) : LiveNetworkError(k) /\ UNCHANGED liveRest
    \/ \E k \in 1..Len(analyses) : LiveBadJson(k) /\ UNCHANGED liveRest

LiveStart == LiveInit /\ optIdle /\ mfoIdle /\ rainIdle /\ engIdle /\ demoIdle /\ secIdle

SpecLive == LiveStart /\ [][LiveNext]_allVars

\* one request to the single-site engine; a request runs to its end
EngineNext ==
    \/ StartRainCheck /\ UNCHANGED engRest
    \/ RainWait /\ UNCHANGED engRest
    \/ RainProceed /\ UNCHANGED engRest
    \/ EvaluateDay /\ UNCHANGED engRest
    \/ Decide /\ UNCHANGED engRest
    \/ Deadline /\ UNCHANGED engRest

EngineStart == EngineInit /\ optIdle /\ mfoIdle /\ rainIdle /\ liveIdle /\ demoIdle /\ secIdle

SpecEngine == EngineStart /\ [][EngineNext]_allVars /\ WF_allVars(EngineNext)

DemoTimers ==
    \/ DemoElapse /\ UNCHANGED demoRest
    \/ DemoAutoRun /\ UNCHANGED demoRest
    \/ (\E t \in timers : DemoTick(t)) /\ UNCHANGED demoRest
    \/ DemoEffect /\ UNCHANGED demoRest

DemoNext ==
    \/ DemoElapse /\ UNCHANGED demoRest
    \/ DemoAutoRun /\ UNCHANGED demoRest
    \/ (\E t \in timers : DemoTick(t)) /\ UNCHANGED demoRest
    \/ DemoEffect /\ UNCHANGED demoRest
    \/ ClickRunLiveDemo /\ UNCHANGED demoRest
    \/ ClickRunAgain /\ UNCHANGED demoRest
    \/ DemoUnmount /\ UNCHANGED demoRest

DemoStart == DemoInit /\ optIdle /\ mfoIdle /\ rainIdle /\ liveIdle /\ engIdle /\ secIdle

\* time passes, timers that are due fire and pending effects run
SpecDemo == DemoStart /\ [][DemoNext]_allVars /\ WF_allVars(DemoTimers)

SectionNext ==
    \/ (\E v \in FarmSizes : SetFarmSize(v)) /\ UNCHANGED secRest
    \/ (\E n \in GridSizes : SetGridSize(n)) /\ UNCHANGED secRest
    \/ (\E v \in SectionBudgets : SetSectionBudget(v)) /\ UNCHANGED secRest
    \/ ClickAnalyzeSections /\ UNCHANGED secRest
    \/ (\E st \in SectionStatuses, body \in SectionBodies(secCall) :
            SectionResponseParsed(st, body)) /\ UNCHANGED secRest
    \/ SectionNetworkError /\ UNCHANGED secRest
    \/ (\E st \in SectionStatuses : SectionBadJson(st)) /\ UNCHANGED secRest

SectionStart == SectionInit /\ optIdle /\ mfoIdle /\ rainIdle /\ liveIdle /\ engIdle /\ demoIdle

SpecSections == SectionStart /\ [][SectionNext]_allVars
====
